---- MODULE Spec2Model ----
(***************************************************************************)
(* RideJournalServer: the Vehicle controller (create / update / delete /   *)
(* list with the ownership check) as concurrent requests that interleave   *)
(* at every await, and the Event / Comment / Image routers as middleware   *)
(* chains in front of their controllers.                                   *)
(***************************************************************************)
EXTENDS Integers, Sequences, FiniteSets, TLC

\* ------------------------------------------------------------------ bounds
NumUsers == 2
MaxVehicles == 2
MaxBlobs == 2
MaxInFlight == 2
MaxRequests == 3

Users == 1..NumUsers
Slots == 1..MaxInFlight

\* --------------------------------------------------------------- JS values
\* A JavaScript value as it arrives in a JSON body or a query string:
\* k is its type, n its number, s its characters (one-character strings).
JNum(n) == [k |-> "num", n |-> n, s |-> <<>>]
JStr(s) == [k |-> "str", n |-> 0, s |-> s]
JUndef == [k |-> "undef", n |-> 0, s |-> <<>>]
JNull == [k |-> "null", n |-> 0, s |-> <<>>]

\* A text field of a body (type, title, image): k is its type, s the text.
TStr(s) == [k |-> "str", s |-> s]
TUndef == [k |-> "undef", s |-> ""]
TNull == [k |-> "null", s |-> ""]

\* A JS number: NaN or an integer.
NaN == [nan |-> TRUE, v |-> 0]
Num(v) == [nan |-> FALSE, v |-> v]

Digits == <<"0", "1", "2", "3", "4", "5", "6", "7", "8", "9">>
IsDigit(c) == \E i \in 1..Len(Digits) : Digits[i] = c
DigitVal(c) == (CHOOSE i \in 1..Len(Digits) : Digits[i] = c) - 1
DigitOf(n) == Digits[n + 1]

RECURSIVE DecVal(_)
DecVal(s) == IF s = <<>> THEN 0
             ELSE DecVal(SubSeq(s, 1, Len(s) - 1)) * 10 + DigitVal(s[Len(s)])

AllDigits(s) == \A i \in 1..Len(s) : IsDigit(s[i])

\* StringToNumber over the alphabet of digits, signs and letters: the empty
\* string is 0, an optionally signed run of digits is its value, anything
\* else is NaN.
StringToNumber(s) ==
    IF s = <<>> THEN Num(0)
    ELSE IF s[1] \in {"-", "+"}
         THEN IF Len(s) > 1 /\ AllDigits(Tail(s))
              THEN Num(IF s[1] = "-" THEN 0 - DecVal(Tail(s)) ELSE DecVal(Tail(s)))
              ELSE NaN
         ELSE IF AllDigits(s) THEN Num(DecVal(s)) ELSE NaN

\* Number(x)
Number(x) ==
    CASE x.k = "num" -> Num(x.n)
      [] x.k = "undef" -> NaN
      [] x.k = "null" -> Num(0)
      [] x.k = "str" -> StringToNumber(x.s)

\* Number(x) !== tokenUserId, tokenUserId a number
NotSameUser(x, tokenUserId) == Number(x).nan \/ Number(x).v # tokenUserId

\* if (image): undefined, null and the empty string are falsy
Truthy(t) == t.k = "str" /\ t.s # ""

\* ------------------------------------------------------------------ state
VARIABLES
    vehicles,   \* the Vehicle table: a set of rows, one per id
    nextId,     \* the table's auto-increment counter
    blobs,      \* the image names the Blob Store holds
    reqs,       \* the requests in flight, one per slot
    issued,     \* how many requests have arrived
    tables,     \* the Event, Comment and Image tables behind the routers
    http        \* the last exchange of the routers: request, route, response

vars == <<vehicles, nextId, blobs, reqs, issued, tables, http>>
routeVars == <<tables, http>>
vehicleVars == <<vehicles, nextId, blobs, reqs, issued>>

DefaultImage == "default.png"
BlobNames == <<"vehicle_1.png", "vehicle_2.png", "vehicle_3.png", "vehicle_4.png">>

VehicleTypes == {"car", "suv"}

NoData == [userId |-> JUndef, type |-> TUndef, title |-> TUndef, image |-> TUndef]

Idle == [op |-> "idle", pc |-> "idle", id |-> 0, data |-> NoData, caller |-> 0,
         limit |-> 0, offset |-> 0, img |-> TUndef, found |-> {},
         outcome |-> "none", count |-> 0, rows |-> <<>>,
         wrote |-> {}, before |-> {}, after |-> {}, seen |-> {}]

\* Vehicle.findOne({where: {id}}) as a set: empty when it yields null.
RowsById(id) == {r \in vehicles : r.id = id}

\* What the bodies and parameters of the requests are drawn from.
Body(userId, type, title, image) ==
    [userId |-> userId, type |-> type, title |-> title, image |-> image]
CreateBodies ==
    {Body(JNum(u), TStr(t), TStr("a"), TUndef) : u \in Users, t \in VehicleTypes}
    \cup {Body(JNum(1), TStr("car"), TStr("a"), i) : i \in {TNull, TStr(""), TStr("b64")}}
    \cup {Body(JStr(<<DigitOf(1)>>), TStr("car"), TStr("a"), TStr("b64")),
          Body(JStr(<<DigitOf(1)>>), TStr("suv"), TStr("a"), TNull),
          Body(JStr(<<"a">>), TStr("car"), TStr("a"), TStr("b64")),
          Body(JUndef, TStr("car"), TStr("a"), TUndef)}
UpdateBodies ==
    {Body(JUndef, TUndef, TStr("x"), i) : i \in {TUndef, TStr(""), TStr("b64")}}
    \cup {Body(JUndef, TStr("suv"), TUndef, TNull)}
    \cup {Body(JNum(u), TUndef, TUndef, TUndef) : u \in Users}
    \cup {Body(JStr(<<DigitOf(2)>>), TUndef, TStr("x"), TUndef)}
Ids == 1..MaxVehicles
Limits == 0..MaxVehicles
Offsets == 0..1

\* A request arrives and takes the first free slot.
Started(s, r) == /\ reqs[s].pc = "idle"
                 /\ \A f \in Slots : f < s => reqs[f].pc # "idle"
                 /\ issued < MaxRequests
                 /\ issued' = issued + 1
                 /\ reqs' = [reqs EXCEPT ![s] = r]
                 /\ UNCHANGED routeVars

Busy(pcs, ops) == Cardinality({s \in Slots : reqs[s].pc \in pcs /\ reqs[s].op \in ops})

\* ---------------------------------------------------------- createVehicle
CreateNeverDenied(data, tokenUserId) == FALSE

\* if (Number(data.userId) !== tokenUserId) return 401;
CreateDenied(data, tokenUserId) == NotSameUser(data.userId, tokenUserId)

CreateKeepsFalsyImage(image) == IF image.k = "undef" THEN TNull ELSE image

\* vehicleData.image when the body carries no image
CreateWithoutImage(image) == TStr(DefaultImage)

\* The call up to its first await.
StartCreate(s, data, tokenUserId) ==
    /\ nextId + Busy({"saveImage", "write"}, {"create"}) <= MaxVehicles
    /\ Cardinality(blobs) + Busy({"saveImage"}, {"create", "update"}) < MaxBlobs
    /\ Started(s, [Idle EXCEPT
            !.op = "create", !.data = data, !.caller = tokenUserId,
            !.pc = IF CreateDenied(data, tokenUserId) THEN "done"
                   ELSE IF Truthy(data.image) THEN "saveImage" ELSE "write",
            !.outcome = IF CreateDenied(data, tokenUserId) THEN "401" ELSE "none",
            !.img = IF CreateDenied(data, tokenUserId) \/ Truthy(data.image)
                    THEN TUndef ELSE CreateWithoutImage(data.image)])
    /\ UNCHANGED <<vehicles, nextId, blobs>>

\* await saveImage(image, "vehicle"): the Blob Store holds the image and
\* hands back its name.
SavedName == BlobNames[Cardinality(blobs) + 1]

SaveImageNamesOnly(s) ==
    /\ reqs[s].pc = "saveImage"
    /\ reqs' = [reqs EXCEPT ![s].pc = "write", ![s].img = TStr(SavedName)]
    /\ UNCHANGED <<vehicles, nextId, blobs, issued>>
    /\ UNCHANGED routeVars

SaveImage(s) ==
    /\ reqs[s].pc = "saveImage"
    /\ blobs' = blobs \cup {SavedName}
    /\ reqs' = [reqs EXCEPT ![s].pc = "write", ![s].img = TStr(SavedName),
                            ![s].wrote = @ \cup {"blob"}]
    /\ UNCHANGED <<vehicles, nextId, issued>>
    /\ UNCHANGED routeVars

\* The row Vehicle.create(vehicleData) inserts.
NewRow(id, vehicleData) ==
    [id |-> id, userId |-> Number(vehicleData.userId).v, type |-> vehicleData.type.s,
     title |-> vehicleData.title.s, image |-> vehicleData.image, createdAt |-> id]

\* await Vehicle.create(vehicleData); return vehicle;  (or the Store rejects)
CreateWrite(s) ==
    /\ reqs[s].pc = "write" /\ reqs[s].op = "create"
    /\ \/ /\ vehicles' = vehicles \cup
                {NewRow(nextId, [reqs[s].data EXCEPT !.image = reqs[s].img])}
          /\ nextId' = nextId + 1
          /\ reqs' = [reqs EXCEPT ![s].pc = "done", ![s].outcome = "vehicle",
                        ![s].id = nextId, ![s].wrote = @ \cup {"row"},
                        ![s].before = vehicles, ![s].after = vehicles']
       \/ /\ reqs' = [reqs EXCEPT ![s].pc = "done", ![s].outcome = "error",
                        ![s].before = vehicles, ![s].after = vehicles]
          /\ UNCHANGED <<vehicles, nextId, issued>>
    /\ UNCHANGED <<blobs, issued>>
    /\ UNCHANGED routeVars

\* ---------------------------------------------------------- updateVehicle
StartUpdate(s, id, data, tokenUserId) ==
    /\ Cardinality(blobs) + Busy({"findOne", "saveImage"}, {"create", "update"}) < MaxBlobs
    /\ Started(s, [Idle EXCEPT !.op = "update", !.pc = "findOne", !.id = id,
                               !.data = data, !.caller = tokenUserId])
    /\ UNCHANGED <<vehicles, nextId, blobs>>

UpdateDeniedByBody(row, data, tokenUserId) == NotSameUser(data.userId, tokenUserId)

\* if (Number(vehicleOwnerData.userId) !== tokenUserId) return 401;
UpdateDenied(row, data, tokenUserId) == NotSameUser(JNum(row.userId), tokenUserId)

\* const vehicleOwnerData = await Vehicle.findOne(...): reading .userId of
\* null throws; otherwise the ownership check, then on to the next await.
UpdateFindOne(s) ==
    /\ reqs[s].pc = "findOne" /\ reqs[s].op = "update"
    /\ LET found == RowsById(reqs[s].id)
           denied == \E row \in found : UpdateDenied(row, reqs[s].data, reqs[s].caller)
       IN reqs' = [reqs EXCEPT
            ![s].found = found,
            ![s].pc = IF found = {} \/ denied THEN "done"
                      ELSE IF Truthy(reqs[s].data.image) THEN "saveImage" ELSE "write",
            ![s].outcome = IF found = {} THEN "error"
                           ELSE IF denied THEN "401" ELSE "none"]
    /\ UNCHANGED <<vehicles, nextId, blobs, issued>>
    /\ UNCHANGED routeVars

UpdatedRowResetsAbsent(row, vehicleData) ==
    [row EXCEPT !.userId = Number(vehicleData.userId).v,
                !.type = vehicleData.type.s, !.title = vehicleData.title.s,
                !.image = IF vehicleData.image.k = "undef"
                          THEN TStr(DefaultImage) ELSE vehicleData.image]

\* UPDATE ... SET <the fields vehicleData carries> WHERE id = ?
UpdatedRow(row, vehicleData) ==
    [row EXCEPT
        !.userId = IF vehicleData.userId.k = "undef" THEN @
                   ELSE Number(vehicleData.userId).v,
        !.type = IF vehicleData.type.k = "undef" THEN @ ELSE vehicleData.type.s,
        !.title = IF vehicleData.title.k = "undef" THEN @ ELSE vehicleData.title.s,
        !.image = IF vehicleData.image.k = "undef" THEN @ ELSE vehicleData.image]

UpdateWriteFindsRowGone(s) ==
    /\ reqs[s].pc = "write" /\ reqs[s].op = "update"
    /\ LET vehicleData == [reqs[s].data EXCEPT !.image = reqs[s].img]
           hit == RowsById(reqs[s].id)
       IN /\ vehicles' = (vehicles \ hit) \cup {UpdatedRow(r, vehicleData) : r \in hit}
          /\ reqs' = [reqs EXCEPT ![s].pc = "done",
                        ![s].outcome = IF hit = {} THEN "404" ELSE "updated",
                        ![s].count = Cardinality(hit),
                        ![s].wrote = @ \cup (IF hit = {} THEN {} ELSE {"row"}),
                        ![s].before = vehicles, ![s].after = vehicles']
    /\ UNCHANGED <<nextId, blobs, issued>>
    /\ UNCHANGED routeVars

\* await Vehicle.update(vehicleData, {where: {id}}); return vehicle;
UpdateWrite(s) ==
    /\ reqs[s].pc = "write" /\ reqs[s].op = "update"
    /\ LET vehicleData == [reqs[s].data EXCEPT !.image = reqs[s].img]
           hit == RowsById(reqs[s].id)
       IN \/ /\ vehicles' = (vehicles \ hit) \cup {UpdatedRow(r, vehicleData) : r \in hit}
             /\ reqs' = [reqs EXCEPT ![s].pc = "done", ![s].outcome = "updated",
                           ![s].count = Cardinality(hit),
                           ![s].wrote = @ \cup (IF hit = {} THEN {} ELSE {"row"}),
                           ![s].before = vehicles, ![s].after = vehicles']
          \/ /\ reqs' = [reqs EXCEPT ![s].pc = "done", ![s].outcome = "error",
                           ![s].before = vehicles, ![s].after = vehicles]
             /\ UNCHANGED vehicles
    /\ UNCHANGED <<nextId, blobs, issued>>
    /\ UNCHANGED routeVars

\* ---------------------------------------------------------- deleteVehicle
StartDelete(s, id, tokenUserId) ==
    /\ Started(s, [Idle EXCEPT !.op = "delete", !.pc = "findOne", !.id = id,
                               !.caller = tokenUserId])
    /\ UNCHANGED <<vehicles, nextId, blobs>>

DeleteDeniedNever(row, tokenUserId) == FALSE

\* if (Number(vehicleData.userId) !== tokenUserId) return 401;
DeleteDenied(row, tokenUserId) == NotSameUser(JNum(row.userId), tokenUserId)

DeleteFindOne(s) ==
    /\ reqs[s].pc = "findOne" /\ reqs[s].op = "delete"
    /\ LET found == RowsById(reqs[s].id)
           denied == \E row \in found : DeleteDenied(row, reqs[s].caller)
       IN reqs' = [reqs EXCEPT
            ![s].found = found,
            ![s].pc = IF found = {} \/ denied THEN "done" ELSE "write",
            ![s].outcome = IF found = {} THEN "error"
                           ELSE IF denied THEN "401" ELSE "none"]
    /\ UNCHANGED <<vehicles, nextId, blobs, issued>>
    /\ UNCHANGED routeVars

\* await Vehicle.destroy({where: {id}}); return vehicle;
DeleteWrite(s) ==
    /\ reqs[s].pc = "write" /\ reqs[s].op = "delete"
    /\ LET hit == RowsById(reqs[s].id)
       IN \/ /\ vehicles' = vehicles \ hit
             /\ reqs' = [reqs EXCEPT ![s].pc = "done", ![s].outcome = "deleted",
                           ![s].count = Cardinality(hit),
                           ![s].wrote = @ \cup (IF hit = {} THEN {} ELSE {"row"}),
                           ![s].before = vehicles, ![s].after = vehicles']
          \/ /\ reqs' = [reqs EXCEPT ![s].pc = "done", ![s].outcome = "error",
                           ![s].before = vehicles, ![s].after = vehicles]
             /\ UNCHANGED vehicles
    /\ UNCHANGED <<nextId, blobs, issued>>
    /\ UNCHANGED routeVars

\* ------------------------------------------------------------ the lists
Min(a, b) == IF a < b THEN a ELSE b

\* ORDER BY CreatedAt DESC
RECURSIVE NewestFirst(_)
NewestFirst(S) ==
    IF S = {} THEN <<>>
    ELSE LET m == CHOOSE r \in S : \A q \in S : q.createdAt <= r.createdAt
         IN <<m>> \o NewestFirst(S \ {m})

\* LIMIT limit OFFSET offset
Page(q, limit, offset) == SubSeq(q, offset + 1, Min(Len(q), offset + limit))

\* A SELECT with no ORDER BY: the rows in any order the Store picks.
AnyOrder(S) == {q \in [1..Cardinality(S) -> S] : \A r \in S : \E i \in DOMAIN q : q[i] = r}

\* getVehicles({limit, offset}): findAll, newest first, one page
GetVehicles(limit, offset) == {Page(NewestFirst(vehicles), limit, offset)}

\* getVehiclesByUser(id): findAll({where: {userId: id}})
GetVehiclesByUser(id) == AnyOrder({r \in vehicles : r.userId = id})

ByTypeUnfiltered(type) == AnyOrder(vehicles)

\* getVehiclesByType(type): findAll({where: {type: type}})
GetVehiclesByType(type) == AnyOrder({r \in vehicles : r.type = type})

\* A list request: the pagination it asks for, and for the filtered lists
\* the user id (in id) or the type (in data.type) to match.
StartList(s, op, limit, offset, id, type) ==
    /\ Started(s, [Idle EXCEPT !.op = op, !.pc = "findAll", !.limit = limit,
                               !.offset = offset, !.id = id, !.data.type = type])
    /\ UNCHANGED <<vehicles, nextId, blobs>>

\* await Vehicle.findAll(...); return data;
FindAll(s) ==
    /\ reqs[s].pc = "findAll"
    /\ \E q \in CASE reqs[s].op = "getVehicles" ->
                        GetVehicles(reqs[s].limit, reqs[s].offset)
                  [] reqs[s].op = "getVehiclesByUser" -> GetVehiclesByUser(reqs[s].id)
                  [] reqs[s].op = "getVehiclesByType" ->
                        GetVehiclesByType(reqs[s].data.type.s) :
          reqs' = [reqs EXCEPT ![s].pc = "done", ![s].outcome = "rows",
                               ![s].rows = q, ![s].seen = vehicles]
    /\ UNCHANGED <<vehicles, nextId, blobs, issued>>
    /\ UNCHANGED routeVars

\* The response is sent and the request is over.
Respond(s) ==
    /\ reqs[s].pc = "done"
    /\ reqs' = [reqs EXCEPT ![s] = Idle]
    /\ UNCHANGED <<vehicles, nextId, blobs, issued>>
    /\ UNCHANGED routeVars

\* =============================================================== routers
\* The Event, Comment and Image routers: each route is its method, its path
\* pattern, whether verifyToken is in its chain, its validator, the shape of
\* its handler and the controller function the handler calls.
MaxRows == 2

\* A path segment is its text as a sequence: the characters of an id, or the
\* one word of a literal or of a type name.
Word(w) == <<w>>
Lit(w) == [k |-> "lit", s |-> Word(w)]
Param(w) == [k |-> "param", s |-> Word(w)]
Route(method, pattern, auth, validator, shape, controller) ==
    [method |-> method, pattern |-> pattern, auth |-> auth,
     validator |-> validator, shape |-> shape, controller |-> controller]

EventRoutes == <<
    Route("GET", <<>>, FALSE, "none", "listPaged", "getEvents"),
    Route("GET", <<Param("id")>>, FALSE, "idParamValidator", "get", "getEvent"),
    Route("GET", <<Param("id"), Lit("include")>>, FALSE, "idParamValidator",
          "include", "getEventIncludeAll"),
    Route("GET", <<Lit("vehicle"), Param("id")>>, FALSE, "idParamValidator",
          "get", "getEventsByVehicle"),
    Route("GET", <<Lit("type"), Param("type")>>, FALSE, "eventTypeParamValidator",
          "get", "getEventsByType"),
    Route("POST", <<>>, TRUE, "bodyValidator", "mutate", "createEvent"),
    Route("PUT", <<Param("id")>>, TRUE, "bodyValidator", "mutate", "updateEvent"),
    Route("DELETE", <<Param("id")>>, TRUE, "idParamValidator", "mutate", "deleteEvent") >>

CommentRoutes == <<
    Route("GET", <<>>, FALSE, "none", "list", "getComments"),
    Route("GET", <<Param("id")>>, FALSE, "idParamValidator", "get", "getComment"),
    Route("GET", <<Lit("event"), Param("id")>>, FALSE, "idParamValidator",
          "get", "getCommentsByEvent"),
    Route("GET", <<Lit("user"), Param("id")>>, FALSE, "idParamValidator",
          "get", "getCommentsByUser"),
    Route("POST", <<>>, TRUE, "bodyValidator", "mutate", "createComment"),
    Route("PUT", <<Param("id")>>, TRUE, "bodyValidator", "mutate", "updateComment"),
    Route("DELETE", <<Param("id")>>, TRUE, "idParamValidator", "mutate", "deleteComment") >>

ImageRoutes == <<
    Route("GET", <<>>, FALSE, "none", "listRaw", "getImages"),
    Route("GET", <<Param("id")>>, FALSE, "idParamValidator", "get", "getImage"),
    Route("GET", <<Param("id")>>, FALSE, "idParamValidator", "get", "getImagesByEvent"),
    Route("POST", <<>>, FALSE, "bodyValidator", "mutateRaw", "createImage"),
    Route("DELETE", <<Param("id")>>, FALSE, "idParamValidator", "mutateRaw", "deleteImage") >>

\* app.use("/api/events", ...), app.use("/api/comments", ...), app.use("/api/images", ...)
RoutesOf(router) ==
    CASE router = "events" -> EventRoutes
      [] router = "comments" -> CommentRoutes
      [] router = "images" -> ImageRoutes

\* Express matches a pattern segment by segment: a parameter takes any one
\* segment, a literal only itself.
Matches(route, method, path) ==
    /\ route.method = method
    /\ Len(route.pattern) = Len(path)
    /\ \A i \in DOMAIN path : route.pattern[i].k = "param" \/ route.pattern[i].s = path[i]

\* The first route registered that matches handles the request and ends it;
\* 0 when no route matches.
Dispatch(routes, method, path) ==
    IF \E i \in DOMAIN routes : Matches(routes[i], method, path)
    THEN CHOOSE i \in DOMAIN routes :
            /\ Matches(routes[i], method, path)
            /\ \A j \in 1..(i - 1) : ~Matches(routes[j], method, path)
    ELSE 0

\* req.params[name], as text; "" when the pattern has no such parameter.
ParamOf(route, path, name) ==
    IF \E i \in DOMAIN path : route.pattern[i] = Param(name)
    THEN path[CHOOSE i \in DOMAIN path : route.pattern[i] = Param(name)]
    ELSE <<>>

\* parseInt(x, 10) of a query value: the longest run of digits after an
\* optional sign; NaN when there is none or the value is missing.
RECURSIVE DigitPrefix(_)
DigitPrefix(s) == IF s = <<>> \/ ~IsDigit(Head(s)) THEN <<>>
                  ELSE <<Head(s)>> \o DigitPrefix(Tail(s))

ParseInt(x) ==
    IF x.k # "str" \/ x.s = <<>> THEN NaN
    ELSE LET signed == x.s[1] \in {"-", "+"}
             digits == DigitPrefix(IF signed THEN Tail(x.s) ELSE x.s)
         IN IF digits = <<>> THEN NaN
            ELSE Num(IF x.s[1] = "-" THEN 0 - DecVal(digits) ELSE DecVal(digits))

\* a || b on numbers: NaN and 0 are falsy
OrElse(a, b) == IF a.nan \/ a.v = 0 THEN b ELSE a.v

DefaultLimit == 10
DefaultOffset == 0

\* const limit = parseInt(req.query.limit, 10) || 10;
LimitOf(query) == OrElse(ParseInt(query.limit), DefaultLimit)
\* const offset = parseInt(req.query.offset, 10) || 0;
OffsetOf(query) == OrElse(ParseInt(query.offset), DefaultOffset)

EventTypes == {"repair", "modification", "story", "maintenance"}

\* --------------------------------------------------- outside the routers
\* verifyToken: a valid bearer credential yields req.userId and the chain
\* goes on; an absent or invalid one is answered 401 and the chain stops.
NoCred == [present |-> FALSE, valid |-> FALSE, userId |-> 0]
BadCred == [present |-> TRUE, valid |-> FALSE, userId |-> 0]
Token(u) == [present |-> TRUE, valid |-> TRUE, userId |-> u]
VerifyToken(cred) == cred.present /\ cred.valid

\* validationResult(req).isEmpty() for each validator
Validates(validator, req, route) ==
    CASE validator = "none" -> TRUE
      [] validator = "idParamValidator" ->
            LET id == ParamOf(route, req.path, "id")
            IN id # <<>> /\ AllDigits(id) /\ DecVal(id) >= 1
      [] validator = "eventTypeParamValidator" ->
            \E ty \in EventTypes : ParamOf(route, req.path, "type") = Word(ty)
      [] validator = "bodyValidator" -> req.body.ok

\* A controller's answer: kind says what it is (rows, one row, null, a JSON
\* projection, a count, the 401 or 404 sentinel, or a thrown error).
Answer(kind) == [kind |-> kind, rows |-> <<>>, paths |-> {}, count |-> 0]
RowsAnswer(q) == [Answer("rows") EXCEPT !.rows = q]
RowAnswer(S) == IF S = {} THEN Answer("null")
                ELSE [Answer("row") EXCEPT !.rows = <<CHOOSE r \in S : TRUE>>]
CountAnswer(n) == [Answer("count") EXCEPT !.count = n]

EventFields == {"id", "userId", "vehicleId", "title", "type"}
UserFields == {"id", "userName", "email", "password"}
VehicleFields == {"id", "userId", "type", "image"}
CommentFields == {"id", "userId", "eventId", "content"}
Relations == {"User", "Vehicle", "Comments"}
FieldsOf(rel) ==
    CASE rel = "User" -> UserFields
      [] rel = "Vehicle" -> VehicleFields
      [] rel = "Comments" -> CommentFields

\* findOne({where: {id}, include: {all: true}}) then toJSON(): the Event's
\* own fields and, one level down, the fields of each related entity loaded.
IncludeAll(related) ==
    {<<f>> : f \in EventFields}
        \cup UNION {{<<rel, f>> : f \in FieldsOf(rel)} : rel \in related}

IdOf(text) == IF text # <<>> /\ AllDigits(text) THEN DecVal(text) ELSE 0

TableOf(controller) ==
    CASE controller \in {"getEvents", "getEvent", "getEventIncludeAll", "getEventsByVehicle",
                         "getEventsByType", "createEvent", "updateEvent", "deleteEvent"}
            -> "events"
      [] controller \in {"getComments", "getComment", "getCommentsByEvent",
                         "getCommentsByUser", "createComment", "updateComment",
                         "deleteComment"} -> "comments"
      [] OTHER -> "images"

\* The Store rejects an insert whose foreign key names no row of the parent
\* table (ReferentialIntegrityViolation).
Dangling(ref, parents) == ref \notin parents

\* The ids of the rows a new row of the table may refer to: the Vehicles for
\* an Event, the Events for a Comment or an Image.
ParentsOf(table, tbl) ==
    IF table = "events" THEN {r.id : r \in vehicles} ELSE {r.id : r \in tbl.events}

\* The controller functions of the three resources: what each answers and
\* the table it leaves. args carries id, type, limit, offset, the body and
\* the caller (req.userId).
Controller(name, args, tbl) ==
    LET rowsAll == tbl[TableOf(name)]
        byId == {r \in rowsAll : r.id = args.id}
        same == [answer |-> Answer("null"), table |-> rowsAll]
        newRow == [id |-> tbl.nextId[TableOf(name)], userId |-> args.body.userId,
                   ref |-> args.body.ref, type |-> args.body.type,
                   createdAt |-> tbl.nextId[TableOf(name)]]
    IN CASE name = "getEvents" ->
                [same EXCEPT !.answer =
                    IF args.limit < 0 \/ args.offset < 0 THEN Answer("error")
                    ELSE RowsAnswer(Page(NewestFirst(rowsAll), args.limit, args.offset))]
         [] name \in {"getComments", "getImages"} ->
                [same EXCEPT !.answer = RowsAnswer(NewestFirst(rowsAll))]
         [] name \in {"getEvent", "getComment", "getImage"} ->
                [same EXCEPT !.answer = RowAnswer(byId)]
         [] name = "getEventIncludeAll" ->
                [same EXCEPT !.answer =
                    IF byId = {} THEN Answer("null")
                    ELSE [Answer("json") EXCEPT !.paths = IncludeAll(args.related)]]
         [] name \in {"getEventsByVehicle", "getCommentsByEvent", "getImagesByEvent"} ->
                [same EXCEPT !.answer =
                    RowsAnswer(NewestFirst({r \in rowsAll : r.ref = args.id}))]
         [] name = "getCommentsByUser" ->
                [same EXCEPT !.answer =
                    RowsAnswer(NewestFirst({r \in rowsAll : r.userId = args.id}))]
         [] name = "getEventsByType" ->
                [same EXCEPT !.answer =
                    RowsAnswer(NewestFirst({r \in rowsAll : r.type = args.type}))]
         [] name \in {"createEvent", "createComment"} ->
                IF args.body.userId # args.caller THEN [same EXCEPT !.answer = Answer("401")]
                ELSE IF Dangling(args.body.ref, args.parents)
                     THEN [same EXCEPT !.answer = Answer("error")]
                     ELSE [answer |-> RowAnswer({newRow}), table |-> rowsAll \cup {newRow}]
         [] name = "createImage" ->
                IF Dangling(args.body.ref, args.parents)
                THEN [same EXCEPT !.answer = Answer("error")]
                ELSE [answer |-> RowAnswer({newRow}), table |-> rowsAll \cup {newRow}]
         [] name \in {"updateEvent", "updateComment"} ->
                IF byId = {} THEN [same EXCEPT !.answer = Answer("404")]
                ELSE IF \E r \in byId : r.userId # args.caller
                     THEN [same EXCEPT !.answer = Answer("401")]
                     ELSE [answer |-> RowsAnswer(<<>>),
                           table |-> (rowsAll \ byId) \cup
                                        {[r EXCEPT !.type = args.body.type] : r \in byId}]
         [] name \in {"deleteEvent", "deleteComment"} ->
                IF byId = {} THEN [same EXCEPT !.answer = Answer("404")]
                ELSE IF \E r \in byId : r.userId # args.caller
                     THEN [same EXCEPT !.answer = Answer("401")]
                     ELSE [answer |-> CountAnswer(1), table |-> rowsAll \ byId]
         [] name = "deleteImage" ->
                [answer |-> CountAnswer(Cardinality(byId)), table |-> rowsAll \ byId]

\* ------------------------------------------------------------ the handlers
FalsyWhenEmpty(answer) ==
    \/ answer.kind = "null" \/ (answer.kind = "count" /\ answer.count = 0)
    \/ (answer.kind = "rows" /\ answer.rows = <<>>)

\* !data: null and 0 are falsy, a row, an array (empty too) and an object are not
Falsy(answer) == answer.kind = "null" \/ (answer.kind = "count" /\ answer.count = 0)

StripPasswordOnly(json) ==
    IF \E p \in json : p[1] = "User" THEN json \ {<<"User", "password">>} ELSE json

\* const filteredData = data.toJSON();
\* if (filteredData.User) { delete filteredData.User.password; delete filteredData.User.email; }
StripUser(json) ==
    IF \E p \in json : p[1] = "User"
    THEN json \ {<<"User", "password">>, <<"User", "email">>}
    ELSE json

\* What the handler sends: the status, whether the body is the envelope
\* {result: 200, data}, and the data.
Send(status, envelope, answer) == [status |-> status, envelope |-> envelope, data |-> answer]
SendStatus(status) == Send(status, FALSE, Answer("none"))
Envelope(answer) == Send(200, TRUE, answer)

\* switch (data) { case 404: ...; case 401: ...; default: res.send({result: 200, data}) }
SwitchOn(answer) ==
    CASE answer.kind = "404" -> SendStatus(404)
      [] answer.kind = "401" -> Send(401, FALSE, Answer("errors"))
      [] OTHER -> Envelope(answer)

\* if (!data) res.sendStatus(404) else res.send({result: 200, data})
FoundOr404(answer) == IF Falsy(answer) THEN SendStatus(404) ELSE Envelope(answer)

Respond200(shape, answer) ==
    CASE shape \in {"listPaged", "list"} -> Envelope(answer)
      [] shape = "listRaw" -> Send(200, FALSE, answer)
      [] shape \in {"get", "mutateRaw"} -> FoundOr404(answer)
      [] shape = "include" ->
            IF Falsy(answer) THEN SendStatus(404)
            ELSE Envelope([answer EXCEPT !.paths = StripUser(@)])
      [] shape = "mutate" -> SwitchOn(answer)

NoQuery == [limit |-> JUndef, offset |-> JUndef]
NoBody == [ok |-> FALSE, userId |-> 0, ref |-> 0, type |-> ""]
NoArgs == [id |-> 0, type |-> "", limit |-> 0, offset |-> 0, body |-> NoBody,
           caller |-> 0, related |-> {}, parents |-> {}]
NoRequest == [router |-> "", method |-> "", path |-> <<>>, cred |-> NoCred,
              query |-> NoQuery, body |-> NoBody, related |-> {}]
EmptyTables == [events |-> {}, comments |-> {}, images |-> {},
                nextId |-> [events |-> 1, comments |-> 1, images |-> 1]]
NoExchange == [req |-> NoRequest, route |-> 0, verified |-> FALSE, controller |-> "none",
               args |-> NoArgs, res |-> SendStatus(0), before |-> EmptyTables]

\* Rows inserted so far, over the three tables.
Inserted == tables.nextId.events + tables.nextId.comments + tables.nextId.images - 3

\* One request through a router, once the exchange before it is over:
\* dispatch, verifyToken where the route has it, the validator, the
\* controller call and the response.
Exchange(req) ==
    LET routes == RoutesOf(req.router)
        i == Dispatch(routes, req.method, req.path)
        route == routes[i]
        x == [NoExchange EXCEPT !.req = req, !.route = i, !.before = tables]
        args == [id |-> IdOf(ParamOf(route, req.path, "id")),
                 type |-> IF route.validator = "eventTypeParamValidator"
                          THEN ParamOf(route, req.path, "type")[1] ELSE "",
                 limit |-> IF route.shape = "listPaged" THEN LimitOf(req.query) ELSE 0,
                 offset |-> IF route.shape = "listPaged" THEN OffsetOf(req.query) ELSE 0,
                 body |-> req.body,
                 caller |-> IF route.auth THEN req.cred.userId ELSE 0,
                 related |-> req.related,
                 parents |-> ParentsOf(TableOf(route.controller), tables)]
        done == Controller(route.controller, args, tables)
        table == TableOf(route.controller)
        inserted == Cardinality(done.table \ tables[table])
    IN /\ http = NoExchange
       /\ IF i = 0 THEN
            /\ http' = [x EXCEPT !.res = SendStatus(404)]
            /\ UNCHANGED tables
          ELSE IF route.auth /\ ~VerifyToken(req.cred) THEN
               /\ http' = [x EXCEPT !.res = Send(401, FALSE, Answer("errors"))]
               /\ UNCHANGED tables
          ELSE IF ~Validates(route.validator, req, route) THEN
               /\ http' = [x EXCEPT !.verified = route.auth,
                                    !.res = Send(422, FALSE, Answer("errors"))]
               /\ UNCHANGED tables
          ELSE /\ Inserted + inserted <= MaxRows
               /\ http' = [x EXCEPT !.verified = route.auth,
                                    !.controller = route.controller, !.args = args,
                                    !.res = IF done.answer.kind = "error" THEN SendStatus(500)
                                            ELSE Respond200(route.shape, done.answer)]
               /\ tables' = [tables EXCEPT
                               ![table] = done.table,
                               !.nextId[table] = @ + inserted]

Init ==
    /\ vehicles = {}
    /\ nextId = 1
    /\ blobs = {}
    /\ reqs = [s \in Slots |-> Idle]
    /\ issued = 0
    /\ tables = EmptyTables
    /\ http = NoExchange

Next ==
    \/ \E s \in Slots, data \in CreateBodies, u \in Users : StartCreate(s, data, u)
    \/ \E s \in Slots : SaveImage(s)
    \/ \E s \in Slots : CreateWrite(s)
    \/ \E s \in Slots, id \in Ids, data \in UpdateBodies, u \in Users :
            StartUpdate(s, id, data, u)
    \/ \E s \in Slots : UpdateFindOne(s)
    \/ \E s \in Slots : UpdateWrite(s)
    \/ \E s \in Slots, id \in Ids, u \in Users : StartDelete(s, id, u)
    \/ \E s \in Slots : DeleteFindOne(s)
    \/ \E s \in Slots : DeleteWrite(s)
    \/ \E s \in Slots, limit \in Limits, offset \in Offsets :
            StartList(s, "getVehicles", limit, offset, 0, TUndef)
    \/ \E s \in Slots, limit \in {1, MaxVehicles}, id \in Users :
            StartList(s, "getVehiclesByUser", limit, 0, id, TUndef)
    \/ \E s \in Slots, limit \in {1, MaxVehicles}, type \in VehicleTypes :
            StartList(s, "getVehiclesByType", limit, 0, 0, TStr(type))
    \/ \E s \in Slots : FindAll(s)
    \/ \E s \in Slots : Respond(s)

Spec == Init /\ [][Next]_vars

\* The response has gone out; the next request can come.
Sent ==
    /\ http # NoExchange
    /\ http' = NoExchange
    /\ UNCHANGED tables
    /\ UNCHANGED vehicleVars

Creds == {NoCred, BadCred} \cup {Token(u) : u \in Users}
IdTexts == {<<DigitOf(1)>>, <<DigitOf(2)>>, Word("x")}
Bodies == {NoBody} \cup [ok : {TRUE}, userId : Users, ref : {1}, type : {"story", "repair"}]
QueryTexts == {JUndef, JStr(<<"0">>), JStr(<<"1">>), JStr(<<"1", "2">>), JStr(<<"a">>),
               JStr(<<"-", "1">>), JStr(<<"1", "a">>)}

Request(router, method, path, cred, query, body, related) ==
    [router |-> router, method |-> method, path |-> path, cred |-> cred,
     query |-> query, body |-> body, related |-> related]

\* GET: the lists, the lookups by id and the filtered lists
Read(router, path, query, related) ==
    /\ Exchange(Request(router, "GET", path, NoCred, query, NoBody, related))
    /\ UNCHANGED vehicleVars

\* POST and PUT: a body, with or without a credential
Write(router, method, path, cred, body) ==
    /\ Exchange(Request(router, method, path, cred, NoQuery, body, {}))
    /\ UNCHANGED vehicleVars

\* DELETE
Remove(router, path, cred) ==
    /\ Exchange(Request(router, "DELETE", path, cred, NoQuery, NoBody, {}))
    /\ UNCHANGED vehicleVars

Routers == {"events", "comments", "images"}
ReadPaths == {<<>>} \cup {<<id>> : id \in IdTexts}
                \cup {<<Word(lit), id>> : lit \in {"vehicle", "event", "user"}, id \in IdTexts}
                \cup {<<Word("type"), Word(ty)>> : ty \in {"story", "bogus"}}

NextRoutes ==
    \/ \E limit \in QueryTexts, offset \in QueryTexts :
            Read("events", <<>>, [limit |-> limit, offset |-> offset], {})
    \/ \E id \in IdTexts, related \in SUBSET Relations :
            Read("events", <<id, Word("include")>>, NoQuery, related)
    \/ \E router \in Routers, path \in ReadPaths : Read(router, path, NoQuery, {})
    \/ \E router \in Routers, cred \in Creds, body \in Bodies :
            Write(router, "POST", <<>>, cred, body)
    \/ \E router \in Routers, id \in IdTexts, cred \in Creds, body \in Bodies :
            Write(router, "PUT", <<id>>, cred, body)
    \/ \E router \in Routers, id \in IdTexts, cred \in Creds : Remove(router, <<id>>, cred)
    \/ Sent

\* The routers are exercised on a Store that already holds a Vehicle of
\* each user.
Garage == {NewRow(u, Body(JNum(u), TStr("car"), TStr("a"), TStr(DefaultImage))) : u \in Users}

InitRoutes ==
    /\ vehicles = Garage
    /\ nextId = NumUsers + 1
    /\ blobs = {}
    /\ reqs = [s \in Slots |-> Idle]
    /\ issued = 0
    /\ tables = EmptyTables
    /\ http = NoExchange

SpecRoutes == InitRoutes /\ [][NextRoutes]_vars

\* Vehicles come and go while Events are posted against them.
JournalBodies == [ok : {TRUE}, userId : Users, ref : Ids, type : {"story"}]

NextJournal ==
    \/ \E s \in Slots, u \in Users :
            StartCreate(s, Body(JNum(u), TStr("car"), TStr("a"), TUndef), u)
    \/ \E s \in Slots : CreateWrite(s)
    \/ \E s \in Slots, id \in Ids, u \in Users : StartDelete(s, id, u)
    \/ \E s \in Slots : DeleteFindOne(s)
    \/ \E s \in Slots : DeleteWrite(s)
    \/ \E s \in Slots : Respond(s)
    \/ \E cred \in Creds, body \in JournalBodies : Write("events", "POST", <<>>, cred, body)
    \/ Sent

SpecJournal == Init /\ [][NextJournal]_vars


\* ------------------------------------------------------------- the claims
Done(s, ops) == reqs[s].pc = "done" /\ reqs[s].op \in ops

\* The body's userId names user c: the number c or its decimal text.
Names(x, c) == x = JNum(c) \/ x = JStr(<<DigitOf(c)>>)

\* C1: an update or a delete of an existing Vehicle by a caller who is not
\* its owner ends in 401 and has written nothing: no Vehicle row and no
\* image in the Blob Store.
C1_NonOwnerDenied ==
    \A s \in Slots :
        Done(s, {"update", "delete"}) =>
            \A row \in reqs[s].found :
                row.userId # reqs[s].caller =>
                    /\ reqs[s].outcome = "401"
                    /\ reqs[s].wrote = {}
                    /\ reqs[s].img = TUndef

C1_Witness ==
    \E a, b \in Slots :
        /\ Done(a, {"update"}) /\ Done(b, {"delete"})
        /\ reqs[a].outcome = "401" /\ reqs[b].outcome = "401"
        /\ Truthy(reqs[a].data.image)
        /\ reqs[a].found # {} /\ reqs[b].found # {}

\* C2: createVehicle ends in 401 exactly when the body's userId is not the
\* caller, and then persists no row and stores no image; otherwise it
\* persists exactly one new Vehicle, owned by the caller (or the Store
\* rejects the insert and the table is as it was).
C2_CreateOwnUserOnly ==
    \A s \in Slots :
        /\ reqs[s].op = "create" =>
            (reqs[s].outcome = "401" <=> ~Names(reqs[s].data.userId, reqs[s].caller))
        /\ Done(s, {"create"}) =>
            /\ reqs[s].outcome \in {"401", "vehicle", "error"}
            /\ reqs[s].outcome = "401" => reqs[s].wrote = {} /\ reqs[s].img = TUndef
            /\ reqs[s].outcome = "error" => reqs[s].after = reqs[s].before
            /\ reqs[s].outcome = "vehicle" =>
                /\ reqs[s].before \subseteq reqs[s].after
                /\ Cardinality(reqs[s].after \ reqs[s].before) = 1
                /\ \A r \in reqs[s].after \ reqs[s].before :
                        /\ r.userId = reqs[s].caller
                        /\ r.id = reqs[s].id
                        /\ \A q \in reqs[s].before : q.id # r.id

C2_Witness ==
    \E a, b \in Slots :
        /\ Done(a, {"create"}) /\ reqs[a].outcome = "vehicle"
        /\ reqs[a].data.userId.k = "str"
        /\ Done(b, {"create"}) /\ reqs[b].outcome = "401"
        /\ Truthy(reqs[b].data.image)

\* C3 (as claimed): an update or a delete of an id that no row has ends in
\* the NotFound outcome, 404.
C3_MissingIdIsNotFound ==
    \A s \in Slots :
        Done(s, {"update", "delete"}) /\ reqs[s].found = {} =>
            reqs[s].outcome = "404"

\* C4: updateVehicle denies exactly when the stored row's userId is not the
\* caller, whatever userId the body carries.
C4_StoredOwnerDecides ==
    \A s \in Slots :
        reqs[s].op = "update" /\ reqs[s].found # {} =>
            \A row \in reqs[s].found :
                /\ reqs[s].outcome = "401" <=> row.userId # reqs[s].caller
                /\ row.userId = reqs[s].caller /\ reqs[s].pc = "done" =>
                        reqs[s].outcome \in {"updated", "error"}

C4_Witness ==
    \E a, b \in Slots :
        /\ Done(a, {"update"}) /\ reqs[a].outcome = "401"
        /\ Names(reqs[a].data.userId, reqs[a].caller)
        /\ Done(b, {"update"}) /\ reqs[b].outcome = "updated" /\ reqs[b].count = 1
        /\ \E u \in Users : u # reqs[b].caller /\ Names(reqs[b].data.userId, u)


\* C5: an update by someone other than the owner is denied and writes
\* nothing; the same update by the owner sets every field the body carries
\* and leaves every other field, the image reference included when the body
\* has no image, and every other row as it was.
C5_OnlyPayloadFieldsChange ==
    \A s \in Slots :
        Done(s, {"update"}) =>
            /\ reqs[s].outcome = "401" => reqs[s].wrote = {}
            /\ reqs[s].outcome = "updated" /\ reqs[s].count = 1 =>
                \E old \in reqs[s].before, new \in reqs[s].after :
                    /\ old.id = reqs[s].id /\ new.id = reqs[s].id
                    /\ reqs[s].after \ {new} = reqs[s].before \ {old}
                    /\ new.createdAt = old.createdAt
                    /\ new.title = IF reqs[s].data.title.k = "str"
                                   THEN reqs[s].data.title.s ELSE old.title
                    /\ new.type = IF reqs[s].data.type.k = "str"
                                  THEN reqs[s].data.type.s ELSE old.type
                    /\ IF reqs[s].data.userId.k = "undef"
                       THEN new.userId = old.userId
                       ELSE Names(reqs[s].data.userId, new.userId)
                    /\ IF Truthy(reqs[s].data.image)
                       THEN new.image.k = "str" /\ new.image.s \in blobs
                       ELSE new.image = old.image

\* B's update {title: "x"} was denied on a row still titled "a"; A's same
\* update then went through on a row that has an image of its own.
C5_Witness ==
    \E a, b \in Slots :
        /\ Done(b, {"update"}) /\ reqs[b].outcome = "401"
        /\ Done(a, {"update"}) /\ reqs[a].outcome = "updated" /\ reqs[a].count = 1
        /\ reqs[a].id = reqs[b].id /\ reqs[a].data = reqs[b].data
        /\ reqs[a].data = Body(JUndef, TUndef, TStr("x"), TUndef)
        /\ \A row \in reqs[b].found : row.title = "a" /\ row.userId = reqs[a].caller
        /\ \E row \in vehicles :
                /\ row.id = reqs[a].id /\ row.title = "x"
                /\ row.image.s # DefaultImage

\* C6 (as claimed): a POST, PUT or DELETE with an absent or invalid
\* credential never reaches a controller and never changes the Store.
C6_MutationsNeedCredential ==
    http.req.method \in {"POST", "PUT", "DELETE"} /\ ~(http.req.cred.present /\ http.req.cred.valid)
        => http.controller = "none" /\ tables = http.before

IsIncludeRequest ==
    /\ http.req.router = "events" /\ http.req.method = "GET"
    /\ Len(http.req.path) = 2 /\ http.req.path[2] = Word("include")

\* C7: what GET /events/{id}/include sends carries no password and no email
\* of a User, whichever related entities were loaded; for an id that no
\* Event has it sends 404.
C7_IncludeHidesCredentials ==
    IsIncludeRequest =>
        LET id == http.req.path[1]
            known == \E r \in http.before.events : <<DigitOf(r.id)>> = id
        IN /\ \A p \in http.res.data.paths : p[Len(p)] \notin {"password", "email"}
           /\ known => /\ http.res.status = 200 /\ http.res.envelope
                       /\ \A rel \in http.req.related : <<rel, "id">> \in http.res.data.paths
                       /\ <<"title">> \in http.res.data.paths
           /\ ~known /\ id \in {<<DigitOf(1)>>, <<DigitOf(2)>>} => http.res.status = 404

C7_Witness ==
    /\ IsIncludeRequest
    /\ http.res.status = 200
    /\ http.req.related = Relations
    /\ <<"User", "userName">> \in http.res.data.paths

\* The query value is a whole number / holds no number at all.
IsNumber(x) == x.k = "str" /\ ~Number(x).nan /\ x.s # <<>>
NoNumber(x) == x.k = "undef" \/ (x.k = "str" /\ (x.s = <<>> \/ ~IsDigit(x.s[1])) /\ Number(x).nan)

\* C8 (as claimed): GET /events hands the Store limit 10 for a missing or
\* non-numeric limit and offset 0 for a missing or non-numeric offset, and
\* hands a numeric limit through as it is; with neither given the answer is
\* the 10 newest Events at most.
C8_ListDefaults ==
    http.controller = "getEvents" =>
        /\ NoNumber(http.req.query.limit) => http.args.limit = 10
        /\ NoNumber(http.req.query.offset) => http.args.offset = 0
        /\ IsNumber(http.req.query.limit) => http.args.limit = Number(http.req.query.limit).v
        /\ http.req.query = NoQuery =>
                /\ http.res.status = 200 /\ Len(http.res.data.rows) <= 10
                /\ \A i, j \in DOMAIN http.res.data.rows :
                        i < j => http.res.data.rows[i].createdAt > http.res.data.rows[j].createdAt

C10_CreatedImageReference ==
    \A s \in Slots :
        Done(s, {"create"}) /\ reqs[s].outcome = "vehicle" =>
            \A r \in reqs[s].after \ reqs[s].before :
                /\ r.image.k = "str" /\ r.image.s # ""
                /\ IF Truthy(reqs[s].data.image)
                   THEN r.image.s \in blobs /\ r.image.s # DefaultImage
                   ELSE r.image.s = "default.png"

C10_Witness ==
    \E a, b \in Slots :
        /\ Done(a, {"create"}) /\ reqs[a].outcome = "vehicle"
        /\ reqs[a].data.image \in {TNull, TStr("")}
        /\ Done(b, {"create"}) /\ reqs[b].outcome = "vehicle"
        /\ Truthy(reqs[b].data.image)

\* C11 (as claimed): every Event's vehicle reference names a Vehicle row the
\* Store holds; an Event posted for a Vehicle that does not exist is rejected
\* and no row is persisted.
C11_EventVehicleExists ==
    /\ \A e \in tables.events : \E v \in vehicles : v.id = e.ref
    /\ http.controller = "createEvent" /\ http.req.body.ref \notin http.args.parents =>
            tables.events = http.before.events

\* C12: updateVehicle reads the owner and writes in two Store steps. An
\* update that passed the ownership check and whose write the Store took
\* answers with the success payload, also when the row was removed in
\* between: the write then affects zero rows and leaves the table as it
\* was, and the answer is still not NotFound.
C12_CheckThenWrite ==
    \A s \in Slots :
        Done(s, {"update"}) /\ reqs[s].found # {}
            /\ (\A row \in reqs[s].found : row.userId = reqs[s].caller)
            /\ reqs[s].outcome # "error" =>
                /\ reqs[s].outcome = "updated"
                /\ (\A r \in reqs[s].before : r.id # reqs[s].id) =>
                        reqs[s].count = 0 /\ reqs[s].after = reqs[s].before

\* The owner's update and delete of one Vehicle both passed the check on the
\* same row; the delete removed it, then the update's write ran.
C12_Witness ==
    \E a, b \in Slots :
        /\ Done(a, {"update"}) /\ Done(b, {"delete"})
        /\ reqs[a].id = reqs[b].id /\ reqs[a].caller = reqs[b].caller
        /\ reqs[a].found # {} /\ reqs[a].found = reqs[b].found
        /\ \A row \in reqs[a].found : row.userId = reqs[a].caller
        /\ reqs[b].outcome = "deleted" /\ reqs[b].count = 1
        /\ reqs[a].outcome = "updated" /\ reqs[a].count = 0
        /\ reqs[a].before = reqs[b].after
        /\ \A r \in vehicles : r.id # reqs[a].id

\* C13: the image is in the Blob Store before the Vehicle row that names it
\* is written: every Vehicle row whose image is not the default names a
\* stored blob, and so does every create or update that is about to write
\* or has written its row.
C13_BlobBeforeRow ==
    /\ \A r \in vehicles : r.image.s # DefaultImage => r.image.s \in blobs
    /\ \A s \in Slots :
            reqs[s].op \in {"create", "update"} /\ reqs[s].pc \in {"write", "done"}
                /\ Truthy(reqs[s].data.image) /\ reqs[s].outcome \notin {"401", "error"} =>
                    reqs[s].img.s \in blobs /\ reqs[s].img.s # DefaultImage

\* A create stored its image and the Store then rejected the row: the blob
\* stays, named by no Vehicle; an update meanwhile wrote a row naming its own
\* stored image.
C13_Witness ==
    \E a, b \in Slots :
        /\ Done(a, {"create"}) /\ reqs[a].outcome = "error"
        /\ reqs[a].img.s \in blobs
        /\ \A r \in vehicles : r.image # reqs[a].img
        /\ Done(b, {"update"}) /\ reqs[b].outcome = "updated" /\ reqs[b].count = 1
        /\ \E r \in vehicles : r.image = reqs[b].img /\ r.image.s \in blobs

\* The rows of the table the filtered list is about that match its filter.
Matching ==
    LET id == IdOf(http.req.path[2])
    IN CASE http.controller = "getEventsByVehicle" ->
                {r \in http.before.events : r.ref = id}
         [] http.controller = "getEventsByType" ->
                {r \in http.before.events : Word(r.type) = http.req.path[2]}
         [] http.controller = "getCommentsByEvent" ->
                {r \in http.before.comments : r.ref = id}
         [] http.controller = "getCommentsByUser" ->
                {r \in http.before.comments : r.userId = id}

FilteredLists == {"getEventsByVehicle", "getEventsByType", "getCommentsByEvent",
                  "getCommentsByUser"}

C15_SuccessIsEnvelope ==
    http # NoExchange =>
        /\ http.res.status \in {200, 401, 404, 422, 500}
        /\ http.res.status = 200 <=> http.res.envelope

\* C16 (as claimed): a request for the images of an event, one that the
\* images-by-event route matches or one for the documented path
\* /api/images/event/{id}, is answered by the handler that calls
\* getImagesByEvent.
C16_ImagesByEventDispatched ==
    http.req.router = "images" =>
        /\ \A k \in DOMAIN ImageRoutes :
                /\ ImageRoutes[k].controller = "getImagesByEvent"
                /\ Matches(ImageRoutes[k], http.req.method, http.req.path)
                => /\ http.route = k
                   /\ http.controller \in {"none", "getImagesByEvent"}
        /\ http.req.method = "GET" /\ Len(http.req.path) = 2
                /\ http.req.path[1] = Word("event") /\ IdOf(http.req.path[2]) >= 1
                => http.controller = "getImagesByEvent"

\* C17 (as claimed): whatever the limit and offset of GET /events are, the
\* limit and the offset handed to the Store are integers >= 0, and a limit
\* or an offset given as a number >= 0 is handed over as it is, 0 included.
C17_PaginationIsNatural ==
    http.controller = "getEvents" =>
        /\ http.args.limit >= 0 /\ http.args.offset >= 0
        /\ IsNumber(http.req.query.limit) /\ Number(http.req.query.limit).v >= 0 =>
                http.args.limit = Number(http.req.query.limit).v
        /\ IsNumber(http.req.query.offset) /\ Number(http.req.query.offset).v >= 0 =>
                http.args.offset = Number(http.req.query.offset).v

\* C18 (as claimed): a write or a removal is applied to a Vehicle row only
\* by the caller who is the row's recorded owner at the moment it is applied;
\* a new row is owned by the caller who created it.
C18_WriteOnlyByCurrentOwner ==
    \A s \in Slots :
        /\ Done(s, {"update", "delete"}) /\ "row" \in reqs[s].wrote =>
                \A r \in reqs[s].before : r.id = reqs[s].id => r.userId = reqs[s].caller
        /\ Done(s, {"create"}) /\ "row" \in reqs[s].wrote =>
                \A r \in reqs[s].after \ reqs[s].before : r.userId = reqs[s].caller

====
